---- MODULE Spec2Model ----
(***************************************************************************)
(* Model of rp.py (src/rp.py): main(argv) aggregates prompt templates and  *)
(* files into one XML document.                                            *)
(*                                                                         *)
(* A Python str is modelled as a sequence of atoms.  An atom is either one *)
(* single character (every whitespace character, every character that the *)
(* XML escaping or os.path.basename looks at, is an atom of its own) or a  *)
(* fixed piece of text that holds no whitespace and no special character   *)
(* (a tag name, "inline_prompt_", an entity such as "&amp;").              *)
(*                                                                         *)
(* The file system is a fixed fixture (FsFiles, Content, OutputMode).      *)
(* Following the assumptions stated in the module docstring (lines 44-46), *)
(* every input file is text, so a read either returns a str or raises      *)
(* IOError (read_file_content's documented failure).                       *)
(***************************************************************************)
EXTENDS Integers, Sequences, FiniteSets, TLC

\* Largest number of -p / -f / positional items on the command line, together.
MaxArgs == 4

-----------------------------------------------------------------------------
(* Strings *)

\* str.isspace() on one character (the whitespace str.strip/str.split use).
IsSpace(c) == c \in {" ", "\t", "\n", "\r", "\f"}

\* The line boundaries of str.splitlines().
IsLineBreak(c) == c \in {"\n", "\r", "\f"}

RECURSIVE Concat(_)
\* "".join(seq of strings)
Concat(ss) == IF ss = <<>> THEN <<>> ELSE Head(ss) \o Concat(Tail(ss))

RECURSIVE SplitLinesFrom(_, _, _)
\* str.splitlines(): cur is the line being collected, out the lines so far.
SplitLinesFrom(s, cur, out) ==
    IF s = <<>> THEN (IF cur = <<>> THEN out ELSE Append(out, cur))
    ELSE IF IsLineBreak(Head(s))
         THEN IF Head(s) = "\r" /\ Len(s) > 1 /\ s[2] = "\n"
              THEN SplitLinesFrom(Tail(Tail(s)), <<>>, Append(out, cur))
              ELSE SplitLinesFrom(Tail(s), <<>>, Append(out, cur))
         ELSE SplitLinesFrom(Tail(s), Append(cur, Head(s)), out)

splitlines(s) == SplitLinesFrom(s, <<>>, <<>>)

RECURSIVE lstrip(_)
lstrip(s) == IF s # <<>> /\ IsSpace(Head(s)) THEN lstrip(Tail(s)) ELSE s

RECURSIVE rstrip(_)
rstrip(s) ==
    IF s # <<>> /\ IsSpace(s[Len(s)]) THEN rstrip(SubSeq(s, 1, Len(s) - 1)) ELSE s

\* str.strip()
strip(s) == rstrip(lstrip(s))

RECURSIVE SplitFrom(_, _, _)
\* str.split() with no argument: runs of whitespace separate the words and
\* leading/trailing whitespace yields no empty word.
SplitFrom(s, cur, out) ==
    IF s = <<>> THEN (IF cur = <<>> THEN out ELSE Append(out, cur))
    ELSE IF IsSpace(Head(s))
         THEN SplitFrom(Tail(s), <<>>, IF cur = <<>> THEN out ELSE Append(out, cur))
         ELSE SplitFrom(Tail(s), Append(cur, Head(s)), out)

split(s) == SplitFrom(s, <<>>, <<>>)

RECURSIVE replace(_, _, _)
\* str.replace(old, new) for a one-character old.
replace(s, old, new) ==
    IF s = <<>> THEN <<>>
    ELSE (IF Head(s) = old THEN new ELSE <<Head(s)>>) \o replace(Tail(s), old, new)

Digit(d) == <<"0", "1", "2", "3", "4", "5", "6", "7", "8", "9">>[d + 1]

RECURSIVE IntToStr(_)
\* The decimal text an f-string gives a non-negative int.
IntToStr(n) == IF n < 10 THEN <<Digit(n)>> ELSE Append(IntToStr(n \div 10), Digit(n % 10))

RECURSIVE LastSlash(_, _)
\* str.rfind('/') over positions 1..k (0 when there is none).
LastSlash(p, k) == IF k = 0 THEN 0 ELSE IF p[k] = "/" THEN k ELSE LastSlash(p, k - 1)

\* os.path.basename(p) == p[p.rfind('/') + 1:]
basename(p) == SubSeq(p, LastSlash(p, Len(p)) + 1, Len(p))

-----------------------------------------------------------------------------
(* xml.etree.ElementTree, as main uses it *)

\* ElementTree._escape_cdata
escape_cdata(text) ==
    replace(replace(replace(text, "&", <<"&amp;">>), "<", <<"&lt;">>), ">", <<"&gt;">>)

\* ElementTree._escape_attrib
escape_attrib(text) ==
    replace(replace(replace(replace(escape_cdata(text),
        "\"", <<"&quot;">>), "\r", <<"&#13;">>), "\n", <<"&#10;">>), "\t", <<"&#09;">>)

\* ET.Element / ET.SubElement: an element is a record.
Element(tag, attrib, text, children) ==
    [tag |-> tag, attrib |-> attrib, text |-> text, children |-> children]

RECURSIVE SerializeAttrs(_)
SerializeAttrs(items) ==
    IF items = <<>> THEN <<>>
    ELSE <<" ", Head(items)[1], "=", "\"">> \o escape_attrib(Head(items)[2]) \o <<"\"">>
         \o SerializeAttrs(Tail(items))

RECURSIVE serialize_xml(_)
\* ElementTree._serialize_xml with short_empty_elements=True, as ET.tostring
\* calls it: an element with neither text nor children is written "<tag />".
serialize_xml(elem) ==
    LET kids == elem.children
        inner == [k \in 1..Len(kids) |-> serialize_xml(kids[k])]
    IN  <<"<", elem.tag>> \o SerializeAttrs(elem.attrib)
        \o (IF elem.text # <<>> \/ kids # <<>>
            THEN <<">">> \o escape_cdata(elem.text) \o Concat(inner)
                 \o <<"</", elem.tag, ">">>
            ELSE <<" ", "/>">>)

-----------------------------------------------------------------------------
(* The file system the run sees *)

FileA == <<"a", "&">>
FileB == <<"d", "/", "b">>
TplT == <<"d", "/", "t">>
ListL == <<"l">>
ListK == <<"k">>
Missing == <<"m">>
Unreadable == <<"u">>
EmptyPath == <<>>

\* The paths os.path.isfile() answers True for.
FsFiles == {FileA, FileB, TplT, ListL, ListK, Unreadable}

\* os.path.isfile(path)
isfile(path) == path \in FsFiles

\* Whether open(path, 'r') succeeds (otherwise it raises IOError).
CanRead(path) == isfile(path) /\ path # Unreadable

\* What read_file_content returns for a readable path.
Content(path) ==
    CASE path = FileA -> <<"x", " ", "&", "y">>
      [] path = FileB -> <<>>
      [] path = TplT  -> <<"s", "\n", "<", "t", ">">>
      [] path = ListL -> <<" ">> \o FileA \o <<"\n", "\n", " ", "\t", "\r", "\n">>
                         \o FileB \o <<" ", "\n">> \o FileA
      [] path = ListK -> FileA \o <<"\n">> \o Missing \o <<"\n">>
      [] OTHER -> <<>>

OutOk == <<"o">>
OutNoOpen == <<"r">>
OutNoSpace == <<"q">>

\* What the output destination holds before the run.
OldContent == <<"old">>

\* How open(path, 'w') and the write behave for an output destination.
OutputMode(path) ==
    CASE path = OutOk      -> "ok"
      [] path = OutNoOpen  -> "noopen"
      [] path = OutNoSpace -> "nospace"
      [] OTHER             -> "noopen"

-----------------------------------------------------------------------------
(* Command line *)

\* An optional argparse value: <<>> is None, <<v>> is the value v.
None == <<>>
Some(v) == <<v>>

\* Python truthiness of an optional str: None and "" are both false.
Truthy(opt) == opt # None /\ opt[1] # <<>>

PromptPathSet == {TplT, Missing, Unreadable}
FilePathSet == {FileA, Missing, Unreadable}
InlineSet == {<<>>, <<"p", " ", "q">>}
ListOpts == {None, Some(EmptyPath), Some(ListL), Some(ListK), Some(Missing), Some(Unreadable)}
OutputOpts == {None, Some(EmptyPath), Some(OutOk), Some(OutNoOpen), Some(OutNoSpace)}

\* parser.parse_args(argv): the namespaces argparse can hand to main.
ArgsSet ==
    UNION { UNION { UNION {
        [prompt : [1..np -> PromptPathSet], file : [1..nf -> FilePathSet],
         additional_prompts : [1..ni -> InlineSet],
         list : ListOpts, output : OutputOpts, silent : BOOLEAN]
        : ni \in 0..(MaxArgs - np - nf) } : nf \in 0..(MaxArgs - np) } : np \in 0..MaxArgs }

-----------------------------------------------------------------------------
(* Diagnostics: an f-string is its literal head, its argument, its literal tail *)

ErrListMissing(p) == <<"Error: List file '", p, "' does not exist or is not accessible.">>
ErrListRead(p) == <<"Error: Could not read list file '", p, "'.">>
ErrPromptMissing(p) ==
    <<"Error: Prompt template file '", p, "' does not exist or is not accessible.">>
ErrPromptRead(p) == <<"Error: Could not read prompt template file '", p, "'.">>
ErrFileMissing(p) == <<"Error: File '", p, "' does not exist or is not accessible.">>
ErrFileRead(p) == <<"Error: Could not read file '", p, "'.">>
ErrWrite(p) == <<"Error: Could not write to output file '", p, "'.">>
SuccessLine(n) == <<"Success: Prompt generated with ", IntToStr(n), " tokens.">>

DefaultTemplate ==
    <<<<"default">>,
      <<"Please", " ", "analyze", " ", "the", " ", "provided", " ", "files", " ", "and",
        " ", "summarize", " ", "their", " ", "purpose", " ", "and", " ",
        "functionality.">>>>

-----------------------------------------------------------------------------
(* One run of main.  A frame m holds main's locals and what the run has done *)
(* to the outside: stdout, stderr, the output destination, the return code.  *)

\* The frame main starts with (lines 85-89).
Start(a) ==
    [args |-> a, pc |-> "list", file_paths |-> a.file, templates |-> <<>>,
     files_data |-> <<>>, prompt_el |-> <<>>, final_str |-> <<>>,
     stdout |-> <<>>, stderr |-> <<>>, disk |-> OldContent, out_opened |-> FALSE,
     rc |-> None, io |-> <<>>]

prompt_paths(m) == m.args.prompt
inline_prompts(m) == m.args.additional_prompts

\* A call into the file system, in the order made.
Log(m, op, path) == [m EXCEPT !.io = Append(@, <<op, path>>)]

\* Diag with the test of args.silent left out.
Diag_Always(m, line) == [m EXCEPT !.stderr = Append(@, line)]

\* "if not args.silent: print(line, file=sys.stderr)"
Diag(m, line) == IF m.args.silent THEN m ELSE [m EXCEPT !.stderr = Append(@, line)]

\* An error exit: the diagnostic, then "return 1".
Fail(m, line) == [Diag(m, line) EXCEPT !.rc = Some(1), !.pc = "done"]

\* Where control goes when a for-loop has nothing (more) to do.
AfterList(m) == IF prompt_paths(m) = <<>> THEN "inline" ELSE "prompts"
AfterDefault(m) == IF m.file_paths = <<>> THEN "build" ELSE "files"

RECURSIVE ListedPaths(_)
\* Lines 103-106: strip each line, keep the non-empty ones.
ListedPaths(lines) ==
    IF lines = <<>> THEN <<>>
    ELSE LET line == strip(Head(lines))
         IN  (IF line # <<>> THEN <<line>> ELSE <<>>) \o ListedPaths(Tail(lines))

\* HandleList with the listed paths put in front of the -f paths.
HandleList_Prepend(m) ==
    IF ~Truthy(m.args.list) THEN [m EXCEPT !.pc = AfterList(m)]
    ELSE LET p == m.args.list[1]
             m1 == Log(m, "isfile", p)
             m2 == Log(m1, "open", p)
         IN  IF ~isfile(p) THEN Fail(m1, ErrListMissing(p))
             ELSE IF ~CanRead(p) THEN Fail(m2, ErrListRead(p))
             ELSE [m2 EXCEPT !.file_paths = ListedPaths(splitlines(Content(p))) \o @,
                             !.pc = AfterList(m)]

\* Lines 92-106: the -l list file.
HandleList(m) ==
    IF ~Truthy(m.args.list) THEN [m EXCEPT !.pc = AfterList(m)]
    ELSE LET p == m.args.list[1]
             m1 == Log(m, "isfile", p)
             m2 == Log(m1, "open", p)
         IN  IF ~isfile(p) THEN Fail(m1, ErrListMissing(p))
             ELSE IF ~CanRead(p) THEN Fail(m2, ErrListRead(p))
             ELSE [m2 EXCEPT !.file_paths = @ \o ListedPaths(splitlines(Content(p))),
                             !.pc = AfterList(m)]

\* Lines 110-121: one iteration of the loop over prompt_paths.
ReadPrompt(m) ==
    LET k == Len(m.templates) + 1
        ppath == prompt_paths(m)[k]
        m1 == Log(m, "isfile", ppath)
        m2 == Log(m1, "open", ppath)
    IN  IF ~isfile(ppath) THEN Fail(m1, ErrPromptMissing(ppath))
        ELSE IF ~CanRead(ppath) THEN Fail(m2, ErrPromptRead(ppath))
        ELSE [m2 EXCEPT !.templates = Append(@, <<ppath, Content(ppath)>>),
                        !.pc = IF k = Len(prompt_paths(m)) THEN "inline" ELSE "prompts"]

\* Line 125: the template of the positional argument at enumerate index idx.
InlineTemplate(idx, inline_prompt) ==
    <<<<"inline_prompt_">> \o IntToStr(idx + 1), inline_prompt>>

\* AddInline numbering the positional arguments by their place among all templates.
AddInline_CountAll(m) ==
    [m EXCEPT !.templates = @ \o [k \in 1..Len(inline_prompts(m)) |->
                  InlineTemplate(Len(m.templates) + k - 1, inline_prompts(m)[k])],
              !.pc = "default"]

\* Lines 124-125: the loop over the positional arguments.
AddInline(m) ==
    [m EXCEPT !.templates = @ \o [k \in 1..Len(inline_prompts(m)) |->
                                     InlineTemplate(k - 1, inline_prompts(m)[k])],
              !.pc = "default"]

\* AddDefault without the test "if not templates".
AddDefault_Always(m) ==
    [m EXCEPT !.templates = Append(@, DefaultTemplate), !.pc = AfterDefault(m)]

\* Lines 127-128.
AddDefault(m) ==
    [m EXCEPT !.templates = IF @ = <<>> THEN <<DefaultTemplate>> ELSE @,
              !.pc = AfterDefault(m)]

\* Lines 132-143: one iteration of the loop over file_paths.
ReadFile(m) ==
    LET k == Len(m.files_data) + 1
        fpath == m.file_paths[k]
        m1 == Log(m, "isfile", fpath)
        m2 == Log(m1, "open", fpath)
    IN  IF ~isfile(fpath) THEN Fail(m1, ErrFileMissing(fpath))
        ELSE IF ~CanRead(fpath) THEN Fail(m2, ErrFileRead(fpath))
        ELSE [m2 EXCEPT !.files_data = Append(@, <<fpath, Content(fpath)>>),
                        !.pc = IF k = Len(m.file_paths) THEN "build" ELSE "files"]

\* Lines 148-151: one <template> element.
TemplateEl(t) == Element("template", <<<<"name", basename(t[1])>>>>, t[2], <<>>)

\* Lines 154-157: one <file> element.
FileEl(f) == Element("file", <<<<"path", f[1]>>>>, f[2], <<>>)

\* BuildTree creating the files element only when there are files.
BuildTree_OmitEmptyFiles(templates, files_data) ==
    Element("prompt", <<>>, <<>>,
        << Element("templates", <<>>, <<>>,
               [k \in 1..Len(templates) |-> TemplateEl(templates[k])]) >>
        \o (IF files_data = <<>> THEN <<>>
            ELSE << Element("files", <<>>, <<>>,
                        [k \in 1..Len(files_data) |-> FileEl(files_data[k])]) >>))

\* Lines 146-157: the element tree.
BuildTree(templates, files_data) ==
    Element("prompt", <<>>, <<>>,
        << Element("templates", <<>>, <<>>,
               [k \in 1..Len(templates) |-> TemplateEl(templates[k])]),
           Element("files", <<>>, <<>>,
               [k \in 1..Len(files_data) |-> FileEl(files_data[k])]) >>)

\* Lines 146-159: build the tree and render it.
Build(m) ==
    LET tree == BuildTree(m.templates, m.files_data)
    IN  [m EXCEPT !.prompt_el = tree, !.final_str = serialize_xml(tree), !.pc = "write"]

\* How much of the document reaches a destination whose write fails part way.
PartialLens(s) == {0, Len(s) \div 2, Len(s) - 1}

\* Write falling back to print(final_str) when the destination cannot be written.
Write_FallbackStdout(m, n) ==
    IF Truthy(m.args.output)
    THEN LET o == m.args.output[1]
             m1 == Log(m, "open_w", o)
             out == [m1 EXCEPT !.stdout = @ \o m.final_str \o <<"\n">>]
         IN  CASE OutputMode(o) = "ok" ->
                    [m1 EXCEPT !.out_opened = TRUE, !.disk = m.final_str, !.pc = "report"]
               [] OutputMode(o) = "nospace" ->
                    Fail([out EXCEPT !.out_opened = TRUE,
                                     !.disk = SubSeq(m.final_str, 1, n)], ErrWrite(o))
               [] OTHER -> Fail(out, ErrWrite(o))
    ELSE [m EXCEPT !.stdout = @ \o m.final_str \o <<"\n">>, !.pc = "report"]

\* Lines 161-170: write the document; n is what a failing write gets out.
Write(m, n) ==
    IF Truthy(m.args.output)
    THEN LET o == m.args.output[1]
             m1 == Log(m, "open_w", o)
         IN  CASE OutputMode(o) = "ok" ->
                    [m1 EXCEPT !.out_opened = TRUE, !.disk = m.final_str, !.pc = "report"]
               [] OutputMode(o) = "nospace" ->
                    Fail([m1 EXCEPT !.out_opened = TRUE,
                                    !.disk = SubSeq(m.final_str, 1, n)], ErrWrite(o))
               [] OTHER -> Fail(m1, ErrWrite(o))
    ELSE [m EXCEPT !.stdout = @ \o m.final_str \o <<"\n">>, !.pc = "report"]

\* Report counting the tokens of the template and file contents, not of the XML.
Report_ContentTokens(m) ==
    LET texts == [k \in 1..Len(m.templates) |-> m.templates[k][2] \o <<" ">>]
                 \o [k \in 1..Len(m.files_data) |-> m.files_data[k][2] \o <<" ">>]
    IN  [Diag(m, SuccessLine(Len(split(Concat(texts))))) EXCEPT
            !.rc = Some(0), !.pc = "done"]

\* Lines 172-176: the success line and "return 0".
Report(m) ==
    [Diag(m, SuccessLine(Len(split(m.final_str)))) EXCEPT !.rc = Some(0), !.pc = "done"]

-----------------------------------------------------------------------------
(* The state machine *)

VARIABLES
    args,        \* the parsed command line (line 85)
    pc,          \* where main is
    file_paths,  \* line 88, extended by the list file (line 106)
    templates,   \* line 109
    files_data,  \* line 131
    prompt_el,   \* line 146 (<<>> until built)
    final_str,   \* line 159
    stdout,      \* what has been printed to sys.stdout
    stderr,      \* the lines printed to sys.stderr
    disk,        \* what the -o destination holds
    out_opened,  \* whether open(args.output, 'w') has succeeded
    rc,          \* main's return value (None while it runs)
    io,          \* the file-system calls made, in order
    twin         \* the same run with -s flipped, stepped in lockstep

vars == <<args, pc, file_paths, templates, files_data, prompt_el, final_str,
          stdout, stderr, disk, out_opened, rc, io, twin>>

\* The run's state as a frame.
Frame ==
    [args |-> args, pc |-> pc, file_paths |-> file_paths, templates |-> templates,
     files_data |-> files_data, prompt_el |-> prompt_el, final_str |-> final_str,
     stdout |-> stdout, stderr |-> stderr, disk |-> disk, out_opened |-> out_opened,
     rc |-> rc, io |-> io]

\* The next state is the frame n.
Becomes(n) ==
    /\ args' = n.args /\ pc' = n.pc /\ file_paths' = n.file_paths
    /\ templates' = n.templates /\ files_data' = n.files_data
    /\ prompt_el' = n.prompt_el /\ final_str' = n.final_str
    /\ stdout' = n.stdout /\ stderr' = n.stderr /\ disk' = n.disk
    /\ out_opened' = n.out_opened /\ rc' = n.rc /\ io' = n.io

\* The statement a frame is at, executed; n is the environment's choice for Write.
Step(m, n) ==
    CASE m.pc = "list"    -> HandleList(m)
      [] m.pc = "prompts" -> ReadPrompt(m)
      [] m.pc = "inline"  -> AddInline(m)
      [] m.pc = "default" -> AddDefault(m)
      [] m.pc = "files"   -> ReadFile(m)
      [] m.pc = "build"   -> Build(m)
      [] m.pc = "write"   -> Write(m, n)
      [] m.pc = "report"  -> Report(m)
      [] OTHER            -> m

Init ==
    \E a \in ArgsSet :
        /\ args = a /\ pc = "list" /\ file_paths = a.file /\ templates = <<>>
        /\ files_data = <<>> /\ prompt_el = <<>> /\ final_str = <<>>
        /\ stdout = <<>> /\ stderr = <<>> /\ disk = OldContent /\ out_opened = FALSE
        /\ rc = None /\ io = <<>>
        /\ twin = Start([a EXCEPT !.silent = ~a.silent])

DoHandleList == pc = "list" /\ Becomes(HandleList(Frame)) /\ twin' = Step(twin, 0)

DoReadPrompt == pc = "prompts" /\ Becomes(ReadPrompt(Frame)) /\ twin' = Step(twin, 0)

DoAddInline == pc = "inline" /\ Becomes(AddInline(Frame)) /\ twin' = Step(twin, 0)

DoAddDefault == pc = "default" /\ Becomes(AddDefault(Frame)) /\ twin' = Step(twin, 0)

DoReadFile == pc = "files" /\ Becomes(ReadFile(Frame)) /\ twin' = Step(twin, 0)

DoBuild == pc = "build" /\ Becomes(Build(Frame)) /\ twin' = Step(twin, 0)

DoWrite ==
    /\ pc = "write"
    /\ \E n \in (IF Truthy(args.output) /\ OutputMode(args.output[1]) = "nospace"
                 THEN PartialLens(final_str) ELSE {0}) :
           Becomes(Write(Frame, n)) /\ twin' = Step(twin, n)

DoReport == pc = "report" /\ Becomes(Report(Frame)) /\ twin' = Step(twin, 0)

Next ==
    \/ DoHandleList \/ DoReadPrompt \/ DoAddInline \/ DoAddDefault
    \/ DoReadFile \/ DoBuild \/ DoWrite \/ DoReport

Spec == Init /\ [][Next]_vars

-----------------------------------------------------------------------------
(* Vocabulary of the properties *)

Succeeded == pc = "done" /\ rc = Some(0)
Failed == pc = "done" /\ rc = Some(1)

\* The run failed before the tree was built: a list, template or file error.
ResolutionFailed == Failed /\ prompt_el = <<>>
\* The run failed at the output destination.
WriteFailed == Failed /\ prompt_el # <<>>

IsPrefix(a, b) == Len(a) <= Len(b) /\ a = SubSeq(b, 1, Len(a))

\* The <template> and <file> elements of the built document.
TemplateEls == prompt_el.children[1].children
FileEls == prompt_el.children[2].children
AttrValue(el) == el.attrib[1][2]

\* The number of maximal runs of non-whitespace characters of s.
RunCount(s) ==
    Cardinality({k \in 1..Len(s) : ~IsSpace(s[k]) /\ (k = 1 \/ IsSpace(s[k - 1]))})

IsSuccessLine(line) == line[1] = "Success: Prompt generated with "
IsErrorLine(line) == ~IsSuccessLine(line)

\* The role an error line names, read off its wording.
RoleOf(line) ==
    CASE line[1] \in {"Error: List file '", "Error: Could not read list file '"} -> "list"
      [] line[1] \in {"Error: Prompt template file '",
                      "Error: Could not read prompt template file '"} -> "template"
      [] line[1] \in {"Error: File '", "Error: Could not read file '"} -> "file"
      [] line[1] = "Error: Could not write to output file '" -> "output"
      [] OTHER -> "none"

\* The lines of the list file, trimmed, the empty ones dropped.
TrimmedLines(path) ==
    LET lines == splitlines(Content(path))
    IN  SelectSeq([k \in 1..Len(lines) |-> strip(lines[k])], LAMBDA l : l # <<>>)

\* The paths the list file contributes (none when no list file could be read).
ListContribution ==
    IF args.list # None /\ CanRead(args.list[1]) THEN TrimmedLines(args.list[1]) ELSE <<>>

\* Every input of the run as <<role, path>>, in the order list file, -p
\* templates, files; the list file counts whenever -l was given.
Inputs ==
    (IF args.list # None THEN <<<<"list", args.list[1]>>>> ELSE <<>>)
    \o [k \in 1..Len(args.prompt) |-> <<"template", args.prompt[k]>>]
    \o [k \in 1..Len(args.file) |-> <<"file", args.file[k]>>]
    \o [k \in 1..Len(ListContribution) |-> <<"file", ListContribution[k]>>]

BadInputs == LET ins == Inputs IN {k \in 1..Len(ins) : ~CanRead(ins[k][2])}
FirstBad == LET bad == BadInputs IN CHOOSE k \in bad : \A j \in bad : k <= j

RECURSIVE ReadCallsOf(_, _)
\* The file-system calls that reading the first k of the inputs ins makes.
ReadCallsOf(ins, k) ==
    IF k = 0 THEN <<>>
    ELSE ReadCallsOf(ins, k - 1) \o <<<<"isfile", ins[k][2]>>>>
         \o (IF isfile(ins[k][2]) THEN <<<<"open", ins[k][2]>>>> ELSE <<>>)

ReadCalls(k) == ReadCallsOf(Inputs, k)

\* The calls that read inputs (the output destination left out).
InputCalls == SelectSeq(io, LAMBDA c : c[1] # "open_w")

\* The position of main in its one pass.
Rank(p) ==
    CASE p = "list" -> 0 [] p = "prompts" -> 1 [] p = "inline" -> 2 [] p = "default" -> 3
      [] p = "files" -> 4 [] p = "build" -> 5 [] p = "write" -> 6 [] p = "report" -> 7
      [] OTHER -> 8

-----------------------------------------------------------------------------
(* C1 *)

\* C1: on every successful run the <file> entries are, in order, the --file
\* paths in flag order followed by the trimmed non-empty lines of the list
\* file in file order; each path attribute is the supplied string and
\* duplicates keep their own entries.
C1_FileOrder ==
    Succeeded =>
        [k \in 1..Len(FileEls) |-> AttrValue(FileEls[k])] = args.file \o ListContribution

\* A successful run with a repeated -f path and a list file that repeats it.
C1_Witness ==
    /\ Succeeded
    /\ Len(args.file) = 2 /\ args.file[1] = args.file[2]
    /\ args.list = Some(ListL)
    /\ Len(FileEls) = 5

-----------------------------------------------------------------------------
(* C2 *)

\* The templates have been resolved (the default substitution is behind).
TemplatesResolved ==
    pc \in {"files", "build", "write", "report"} \/ (pc = "done" /\ prompt_el # <<>>)

\* C2: at serialization time the template list is never empty; with no -p and
\* no positional argument it is exactly the one "default" entry with the fixed
\* text, and with at least one of them no default entry is added.
C2_DefaultTemplate ==
    TemplatesResolved =>
        /\ templates # <<>>
        /\ (args.prompt = <<>> /\ args.additional_prompts = <<>>)
              => templates = <<DefaultTemplate>>
        /\ (args.prompt # <<>> \/ args.additional_prompts # <<>>)
              => /\ Len(templates) = Len(args.prompt) + Len(args.additional_prompts)
                 /\ \A k \in 1..Len(templates) : templates[k][1] # <<"default">>
        /\ prompt_el # <<>> =>
              [k \in 1..Len(TemplateEls) |-> AttrValue(TemplateEls[k])]
                  = [k \in 1..Len(templates) |-> basename(templates[k][1])]

\* A document was built from the default template alone.
C2_Witness ==
    /\ Succeeded
    /\ args.prompt = <<>> /\ args.additional_prompts = <<>>
    /\ Len(TemplateEls) = 1 /\ AttrValue(TemplateEls[1]) = <<"default">>

-----------------------------------------------------------------------------
(* C3 *)

\* The template names and the inline texts the command line asks for.
C3_ExpectedNames ==
    [k \in 1..Len(args.prompt) |-> basename(args.prompt[k])]
    \o [k \in 1..Len(args.additional_prompts) |-> <<"inline_prompt_">> \o IntToStr(k)]

\* C3: on every successful run with a template given, the templates are the
\* -p files in flag order, named by the base name of the path, then the
\* positional arguments in order, the k-th named inline_prompt_k (k counted
\* over the positional arguments alone) with the argument itself as text.
C3_TemplateOrder ==
    (Succeeded /\ (args.prompt # <<>> \/ args.additional_prompts # <<>>)) =>
        /\ [k \in 1..Len(TemplateEls) |-> AttrValue(TemplateEls[k])] = C3_ExpectedNames
        /\ \A k \in 1..Len(args.additional_prompts) :
              TemplateEls[Len(args.prompt) + k].text = args.additional_prompts[k]

\* A successful run with a -p template in a directory and two positional arguments.
C3_Witness ==
    /\ Succeeded
    /\ args.prompt = <<TplT>>
    /\ Len(args.additional_prompts) = 2
    /\ args.additional_prompts[1] # args.additional_prompts[2]
    /\ AttrValue(TemplateEls[1]) = <<"t">>

-----------------------------------------------------------------------------
(* C4 *)

\* The run ended at its first bad input: return code 1, one error line (none
\* when silent) naming that input's path and role, no call after the failing
\* one, no success line.
StopsAtFirstBad ==
    (pc = "done" /\ BadInputs # {}) =>
        /\ rc = Some(1)
        /\ IF args.silent THEN stderr = <<>>
           ELSE /\ Len(stderr) = 1
                /\ IsErrorLine(stderr[1])
                /\ stderr[1][2] = Inputs[FirstBad][2]
                /\ RoleOf(stderr[1]) = Inputs[FirstBad][1]
        /\ InputCalls = ReadCalls(FirstBad)
        /\ ~out_opened /\ stdout = <<>>

\* C4: if any input (the list file, a -p template file, a -f or list-derived
\* file) is missing or unreadable, main stops at that first failure: non-zero
\* return code, exactly one error line (when not silent) naming the failing
\* path and its role, no further input read, no success line.
C4_StopsAtFirstFailure == StopsAtFirstBad

\* C4, away from the failing input: whenever the list path is not the empty
\* string, the run does stop at its first bad input.
C4_ExceptEmptyListPath == (args.list # Some(EmptyPath)) => StopsAtFirstBad

-----------------------------------------------------------------------------
(* C5 *)

\* C5: two runs that differ only in -s agree at every step on the position,
\* the return code, standard output and the output file, and the silent one
\* has written nothing to the diagnostic stream.
C5_SilentNeutral ==
    /\ twin.args = [args EXCEPT !.silent = ~args.silent]
    /\ twin.pc = pc /\ twin.rc = rc
    /\ twin.stdout = stdout
    /\ twin.disk = disk /\ twin.out_opened = out_opened
    /\ args.silent => stderr = <<>>
    /\ twin.args.silent => twin.stderr = <<>>

\* A failing silent run whose non-silent twin printed its error line.
C5_Witness ==
    /\ Failed /\ args.silent /\ stderr = <<>>
    /\ Len(twin.stderr) = 1 /\ IsErrorLine(twin.stderr[1])

-----------------------------------------------------------------------------
(* C6 *)

\* The complete document went out once, to the -o destination when -o was
\* given and to standard output otherwise.
DeliveredOnce ==
    /\ final_str # <<>>
    /\ IF args.output # None
       THEN disk = final_str /\ stdout = <<>>
       ELSE stdout = final_str \o <<"\n">> /\ disk = OldContent

OneDestination ==
    /\ pc = "done" => (rc = Some(0) <=> DeliveredOnce)
    /\ args.output # None => stdout = <<>>

\* C6: main returns 0 if and only if the complete document was emitted exactly
\* once, to the -o destination when -o is given and to standard output
\* otherwise; a run with -o never prints the document to standard output.
C6_OneDestination == OneDestination

\* C6, away from the failing input: it holds whenever the -o path is not the
\* empty string.
C6_ExceptEmptyOutputPath == (args.output # Some(EmptyPath)) => OneDestination

-----------------------------------------------------------------------------
(* C7 *)

\* C7 as stated: on any failing run (WriteError included) nothing is written
\* to standard output and the -o destination is neither opened, truncated nor
\* left holding an incomplete document.
C7_NoPartialOutput ==
    Failed => (stdout = <<>> /\ ~out_opened /\ disk = OldContent)

\* C7 as amended: on a failing run nothing is written to standard output; on
\* a list, template or file error the -o destination is not opened and keeps
\* its content; on a write error the destination has been opened for writing
\* as the last call of the run, and either the open failed and the content is
\* kept, or it succeeded and the destination holds what the failing write
\* got out, a prefix of the document.
C7_NoPartialOutputAmended ==
    Failed =>
        /\ stdout = <<>>
        /\ ResolutionFailed =>
              /\ ~out_opened /\ disk = OldContent
              /\ \A k \in 1..Len(io) : io[k][1] # "open_w"
        /\ WriteFailed =>
              /\ args.output # None
              /\ io[Len(io)] = <<"open_w", args.output[1]>>
              /\ \/ ~out_opened /\ disk = OldContent
                 \/ out_opened /\ IsPrefix(disk, final_str)

\* A write error that left the destination truncated to part of the document.
C7_Witness ==
    /\ WriteFailed /\ out_opened
    /\ disk # OldContent /\ disk # <<>> /\ disk # final_str

-----------------------------------------------------------------------------
(* C8 *)

SuccessLines == {k \in 1..Len(stderr) : IsSuccessLine(stderr[k])}

\* C8: the success line is there exactly when the run has succeeded with
\* silent mode off; it comes after the document has been written, and its
\* token count is the number of maximal runs of non-whitespace characters of
\* the rendered text, markup included.
C8_SuccessLine ==
    /\ (SuccessLines # {}) <=> (Succeeded /\ ~args.silent)
    /\ SuccessLines # {} =>
          /\ SuccessLines = {Len(stderr)}
          /\ disk = final_str \/ stdout = final_str \o <<"\n">>
          /\ stderr[Len(stderr)][2] = IntToStr(RunCount(final_str))

\* A success line for a document that holds files.
C8_Witness ==
    /\ Succeeded /\ ~args.silent /\ Len(files_data) >= 2
    /\ SuccessLines = {1}
    /\ RunCount(final_str) > 3

-----------------------------------------------------------------------------
(* C9 *)

\* Where the rendered text opens an element named tag.
OpenPos(tag) ==
    {k \in 1..(Len(final_str) - 1) : final_str[k] = "<" /\ final_str[k + 1] = tag}
PosOf(tag) == CHOOSE k \in OpenPos(tag) : TRUE

\* C9: every built document is a prompt root with exactly two children,
\* templates then files, both present; templates has at least one template,
\* and with no files the files node is rendered present but empty.
C9_DocumentShape ==
    final_str # <<>> =>
        /\ prompt_el.tag = "prompt"
        /\ Len(prompt_el.children) = 2
        /\ prompt_el.children[1].tag = "templates"
        /\ prompt_el.children[2].tag = "files"
        /\ Len(TemplateEls) >= 1
        /\ \A k \in 1..Len(TemplateEls) : TemplateEls[k].tag = "template"
        /\ \A k \in 1..Len(FileEls) : FileEls[k].tag = "file"
        /\ Cardinality(OpenPos("prompt")) = 1 /\ PosOf("prompt") = 1
        /\ Cardinality(OpenPos("templates")) = 1 /\ Cardinality(OpenPos("files")) = 1
        /\ PosOf("templates") = 4 /\ final_str[6] = ">"
        /\ SubSeq(final_str, 7, 8) = <<"<", "template">>
        /\ PosOf("templates") < PosOf("files")
        /\ LET f == PosOf("files")
               n == Len(final_str)
           IN  IF files_data = <<>>
               THEN SubSeq(final_str, f, n) = <<"<", "files", " ", "/>", "</", "prompt", ">">>
               ELSE /\ SubSeq(final_str, f + 2, f + 4) = <<">", "<", "file">>
                    /\ SubSeq(final_str, n - 5, n) =
                          <<"</", "files", ">", "</", "prompt", ">">>

\* A delivered document without any file.
C9_Witness ==
    /\ Succeeded /\ args.file = <<>> /\ args.list = None
    /\ FileEls = <<>> /\ OpenPos("files") # {}

-----------------------------------------------------------------------------
(* C10 *)

\* The inputs are read in the one order list file, templates, files, and the
\* run ends with return code 0 or 1; with several bad inputs the one error
\* reported is that of the earliest.
LinearOrder ==
    /\ IsPrefix(InputCalls, ReadCalls(Len(Inputs)))
    /\ pc = "done" => (rc = Some(0) \/ rc = Some(1))
    /\ (pc = "done" /\ BadInputs # {}) =>
          /\ Failed
          /\ InputCalls = ReadCalls(FirstBad)
          /\ ~args.silent =>
                /\ Len(stderr) = 1
                /\ stderr[1][2] = Inputs[FirstBad][2]
                /\ RoleOf(stderr[1]) = Inputs[FirstBad][1]

\* C10: inputs are validated and read in one fixed linear order (the list
\* file, then the -p templates in flag order, then the files of the resolved
\* list in order), so with several bad inputs the single error reported is
\* that of the earliest one, and the run ends in exactly one of Done or Failed.
C10_LinearOrder == LinearOrder

\* C10, away from the failing input: it holds whenever the list path is not
\* the empty string.
C10_ExceptEmptyListPath == (args.list # Some(EmptyPath)) => LinearOrder

\* C10, no step revisited: every step moves main forward in its one pass, a
\* loop staying where it is only to take its next path.
C10_NoStepRevisited ==
    [][\/ Rank(pc') > Rank(pc)
       \/ /\ pc' = pc /\ pc \in {"prompts", "files"}
          /\ Len(templates') + Len(files_data') = Len(templates) + Len(files_data) + 1
      ]_vars

====
